---- MODULE Spec2Model ----
(***************************************************************************)
(* Model of static/js/main.js of the AEGIS Protocol web application: the   *)
(* DOMContentLoaded handler (alert auto-hide timers, delete confirmation,  *)
(* required-field validation, file-input change listener) and the exported *)
(* toggleMobileMenu.                                                       *)
(*                                                                         *)
(* Time is counted in units of 500 ms.  setTimeout gives a minimum delay:  *)
(* a timer is pending with the time that remains, and its callback runs in *)
(* some later step once nothing remains.  Strings the code searches or     *)
(* trims are sequences of one-character strings.  User events are         *)
(* dispatched to the listeners the handler registered, so they are         *)
(* modelled from the moment the handler has run; toggleMobileMenu is       *)
(* defined when the script is evaluated and can be called at any time.     *)
(***************************************************************************)
EXTENDS Integers, Sequences, FiniteSets

\* ---------------------------------------------------------------- bounds
MaxAge == 12        \* cap of the per-alert age counter
MaxClock == 11      \* cap of the clock counting from DOMContentLoaded
MaxFade == 2        \* cap of the per-alert time since its fade started
MaxLoadDelay == 1   \* latest time, after the script is evaluated, of DOMContentLoaded

\* ------------------------------------------------------ program constants
HideDelay == 10     \* setTimeout(..., 5000)
RemoveDelay == 1    \* setTimeout(..., 500)

FadeTransition == <<"o","p","a","c","i","t","y"," ","0",".","5","s">>
NoStyle == <<>>
Transparent == <<"0">>
ErrorColor == "#ef4444"
NormalColor == "#e5e7eb"
NoColor == ""
DeleteWord == <<"d","e","l","e","t","e">>

\* ------------------------------------------------------- the served page
\* the elements of class alert: one the server rendered, one that a template or
\* another script may add at any time
Alerts == {"served", "added"}
ServerAlerts == {"served"}

Buttons == {"del", "edit", "caps", "plain"}
\* button.href: the resolved URL of an anchor, or absent for a <button>
NoHref == <<"-">>
Href(b) ==
    CASE b = "del" -> <<"/","x","/","d","e","l","e","t","e","/","1">>
      [] b = "edit" -> <<"/","x","/","e","d","i","t","/","1">>
      [] b = "caps" -> <<"/","x","/","D","e","l","e","t","e","/","1">>
      [] OTHER -> NoHref
HasHref(b) == Href(b) # NoHref /\ Href(b) # <<>>

Forms == {"A", "B", "C"}
\* the form's fields in document order: form A holds two required fields,
\* form B one, form C a single optional field
Fields == {"a1", "a2", "b1", "c1"}
FieldsOf(f) ==
    CASE f = "A" -> <<"a1", "a2">>
      [] f = "B" -> <<"b1">>
      [] OTHER -> <<"c1">>
Required(x) == x # "c1"

FileInputs == {"up1", "up2"}
\* tagName of the input's nextElementSibling; "" when there is no sibling
NextSiblingTag(i) == IF i = "up1" THEN "SMALL" ELSE ""

Whitespace == {" ", "\t"}
Values == {<<>>, <<" ">>, <<"a">>, <<" ", "a", " ">>}

\* ------------------------------------------------------------------ state
VARIABLES
    loaded,       \* the DOMContentLoaded handler has run
    clock,        \* time since the script was evaluated, then since the handler ran
    alertState,   \* per alert: "absent", "inDom" or "removed"
    age,          \* per alert in the DOM: time since its insertion
    opacity,      \* per alert: style.opacity
    transition,   \* per alert: style.transition
    sinceFade,    \* per alert in the DOM: time since its opacity was set to 0
    atLoad,       \* the NodeList `alerts` of the handler
    timers,       \* pending setTimeout callbacks
    clickL,       \* the buttons that got the click listener
    value,        \* per field: its value
    borderColor,  \* per field: style.borderColor
    sidebar,      \* the .sidebar elements in document order, each "open" (it has the
                  \* class mobile-open) or "closed"
    smallText,    \* per file input: text of the element after it
    sidebar0,     \* the sidebar as the page was served
    oddCalls,     \* toggleMobileMenu has been called an odd number of times
    blocked,      \* the forms of which some submit was blocked
    ev            \* the event just dispatched and what the script did with it

vars == <<loaded, clock, alertState, age, opacity, transition, sinceFade, atLoad,
          timers, clickL, value, borderColor, sidebar, smallText, sidebar0, oddCalls, blocked, ev>>

alertVars == <<alertState, age, opacity, transition, sinceFade>>
loadVars == <<loaded, atLoad, clickL>>
formVars == <<value, borderColor, blocked>>
menuVars == <<sidebar, sidebar0, oddCalls>>

Min(a, b) == IF a < b THEN a ELSE b
Max(a, b) == IF a > b THEN a ELSE b

\* what the script did with an event: the confirm() and alert() dialogs it showed,
\* the answer confirm() returned, whether it called preventDefault, whether it threw
NoEvent == [type |-> "none", target |-> "", confirms |-> 0, answer |-> FALSE,
            alerts |-> 0, prevented |-> FALSE, threw |-> FALSE]
Event(type, target) == [NoEvent EXCEPT !.type = type, !.target = target]

\* ---------------------------------------------------------- pure helpers
\* String.prototype.includes
Includes(s, sub) ==
    \E i \in 1..(Len(s) - Len(sub) + 1) : SubSeq(s, i, i + Len(sub) - 1) = sub

RECURSIVE TrimStart(_)
TrimStart(s) ==
    IF s # <<>> /\ Head(s) \in Whitespace THEN TrimStart(Tail(s)) ELSE s

RECURSIVE TrimEnd(_)
TrimEnd(s) ==
    IF s # <<>> /\ s[Len(s)] \in Whitespace THEN TrimEnd(SubSeq(s, 1, Len(s) - 1)) ELSE s

\* String.prototype.trim
Trim(s) == TrimEnd(TrimStart(s))

\* ------------------------------------------------------------------- Init
\* the page has no sidebar, one closed sidebar, or an open one followed by a second
ServedSidebars == {<<>>, <<"closed">>, <<"open", "closed">>}

\* the values the page is served with: a1 blank, c1 empty, the others filled
InitialValue(x) ==
    CASE x = "a1" -> <<" ">>
      [] x = "c1" -> <<>>
      [] OTHER -> <<"a">>

Init ==
    /\ loaded = FALSE
    /\ clock = 0
    /\ alertState = [a \in Alerts |-> IF a \in ServerAlerts THEN "inDom" ELSE "absent"]
    /\ age = [a \in Alerts |-> 0]
    /\ opacity = [a \in Alerts |-> NoStyle]
    /\ transition = [a \in Alerts |-> NoStyle]
    /\ sinceFade = [a \in Alerts |-> 0]
    /\ atLoad = {}
    /\ timers = {}
    /\ clickL = {}
    /\ value = [x \in Fields |-> InitialValue(x)]
    /\ borderColor = [x \in Fields |-> NoColor]
    /\ sidebar \in ServedSidebars
    /\ sidebar0 = sidebar
    /\ oddCalls = FALSE
    /\ blocked = {}
    /\ smallText = [i \in FileInputs |-> ""]
    /\ ev = NoEvent

\* ------------------------------------------------------------ time, alerts
\* the passage of one unit of time
Tick ==
    /\ loaded \/ clock < MaxLoadDelay
    /\ clock' = Min(clock + 1, IF loaded THEN MaxClock ELSE MaxLoadDelay)
    /\ age' = [a \in Alerts |->
                 IF alertState[a] = "inDom" THEN Min(age[a] + 1, MaxAge) ELSE age[a]]
    /\ sinceFade' = [a \in Alerts |->
                 IF alertState[a] = "inDom" /\ opacity[a] = Transparent
                 THEN Min(sinceFade[a] + 1, MaxFade) ELSE sinceFade[a]]
    /\ timers' = {[t EXCEPT !.rem = Max(t.rem - 1, 0)] : t \in timers}
    /\ ev' = NoEvent
    /\ UNCHANGED <<alertState, opacity, transition, loadVars, formVars, menuVars, smallText>>

\* an alert element enters the document (a template or another script adds it)
InsertAlert(a) ==
    /\ alertState[a] = "absent"
    /\ alertState' = [alertState EXCEPT ![a] = "inDom"]
    /\ ev' = NoEvent
    /\ UNCHANGED <<loaded, clock, age, opacity, transition, sinceFade, atLoad, timers,
                   clickL, formVars, menuVars, smallText>>

\* variant: the outer timers are set one unit short of 5000 ms
HideTimersEarly(found) ==
    {[kind |-> "fade", alert |-> a, rem |-> HideDelay - 1] : a \in found}

\* alerts.forEach(... setTimeout(fade, 5000) ...)
HideTimers(found) == {[kind |-> "fade", alert |-> a, rem |-> HideDelay] : a \in found}

\* variant: every button with an href gets the listener
DeleteButtonsAnyHref == {b \in Buttons : HasHref(b)}

\* the buttons that pass `button.href && button.href.includes('delete')`
DeleteButtons == {b \in Buttons : HasHref(b) /\ Includes(Href(b), DeleteWord)}

DOMContentLoaded ==
    /\ ~loaded
    /\ loaded' = TRUE
    /\ clock' = 0
    /\ atLoad' = {a \in Alerts : alertState[a] = "inDom"}
    /\ timers' = timers \cup HideTimers(atLoad')
    /\ clickL' = DeleteButtons
    /\ ev' = NoEvent
    /\ UNCHANGED <<alertVars, formVars, menuVars, smallText>>

\* variant: the inner timer is set with no delay
AfterFadeNoDelay(t) ==
    (timers \ {t}) \cup {[kind |-> "remove", alert |-> t.alert, rem |-> 0]}

\* the timers the outer callback leaves pending
AfterFade(t) == (timers \ {t}) \cup {[kind |-> "remove", alert |-> t.alert, rem |-> RemoveDelay]}

\* the outer setTimeout callback
FadeCallback(t) ==
    /\ transition' = [transition EXCEPT ![t.alert] = FadeTransition]
    /\ opacity' = [opacity EXCEPT ![t.alert] = Transparent]
    /\ sinceFade' = [sinceFade EXCEPT ![t.alert] = 0]
    /\ timers' = AfterFade(t)
    /\ UNCHANGED <<alertState, age>>

\* the inner setTimeout callback: alert.remove()
RemoveCallback(t) ==
    /\ alertState' = [alertState EXCEPT ![t.alert] =
                        IF @ = "inDom" THEN "removed" ELSE @]
    \* the counters of an element that left the document are no longer kept
    /\ age' = [age EXCEPT ![t.alert] = 0]
    /\ sinceFade' = [sinceFade EXCEPT ![t.alert] = 0]
    /\ timers' = timers \ {t}
    /\ UNCHANGED <<opacity, transition>>

\* the event loop runs a timer whose delay has elapsed
TimerFires(t) ==
    /\ t \in timers
    /\ t.rem = 0
    /\ IF t.kind = "fade" THEN FadeCallback(t) ELSE RemoveCallback(t)
    /\ ev' = NoEvent
    /\ UNCHANGED <<clock, loadVars, formVars, menuVars, smallText>>

TimerSet == [kind : {"fade", "remove"}, alert : Alerts, rem : 0..HideDelay]

\* ------------------------------------------------------ delete confirmation
\* variant: the listener asks and never calls preventDefault
ClickListenerNoPrevent(answer) == [confirms |-> 1, answer |-> answer, prevented |-> FALSE]

\* the click listener: confirm(...), and preventDefault unless it returned true
ClickListener(answer) == [confirms |-> 1, answer |-> answer, prevented |-> ~answer]

\* variant: a click clears the pending timers
ClickCancelsTimers(b, answer) ==
    /\ loaded
    /\ answer = FALSE
    /\ timers' = {}
    /\ ev' = Event("click", b)
    /\ UNCHANGED <<loadVars, clock, alertVars, formVars, menuVars, smallText>>

\* a click on a .btn-danger element; answer is what the user answers if asked
Click(b, answer) ==
    /\ loaded
    /\ IF b \in clickL
       THEN LET r == ClickListener(answer)
            IN  ev' = [Event("click", b) EXCEPT !.confirms = r.confirms,
                           !.answer = r.answer, !.prevented = r.prevented]
       ELSE \* no listener: nothing is asked, the default action proceeds
            /\ answer = FALSE
            /\ ev' = Event("click", b)
    /\ UNCHANGED <<loadVars, clock, alertVars, timers, formVars, menuVars, smallText>>

\* --------------------------------------------------------- form validation
\* form.querySelectorAll('[required]'), in document order
RequiredFields(f) == SelectSeq(FieldsOf(f), Required)

\* the body of requiredFields.forEach for one field
CheckField(x, r) ==
    IF Trim(value[x]) = <<>>
    THEN [isValid |-> FALSE, color |-> [r.color EXCEPT ![x] = ErrorColor]]
    ELSE [isValid |-> r.isValid, color |-> [r.color EXCEPT ![x] = NormalColor]]

\* variant: the loop stops at the first empty field
RECURSIVE CheckFieldsStopAtFirst(_, _)
CheckFieldsStopAtFirst(fs, r) ==
    IF fs = <<>> \/ ~r.isValid THEN r
    ELSE CheckFieldsStopAtFirst(Tail(fs), CheckField(Head(fs), r))

\* requiredFields.forEach(...), from `let isValid = true`
RECURSIVE CheckFields(_, _)
CheckFields(fs, r) ==
    IF fs = <<>> THEN r ELSE CheckFields(Tail(fs), CheckField(Head(fs), r))

\* variant: the flag of a blocked submit is kept for the next one
ValidateKeepsFlag(f) ==
    CheckFields(RequiredFields(f), [isValid |-> f \notin blocked, color |-> borderColor])

\* the submit listener up to the end of the loop
Validate(f) == CheckFields(RequiredFields(f), [isValid |-> TRUE, color |-> borderColor])

\* variant: the dialog is shown inside the loop, once per empty field
SubmitOutcomeAlertPerField(f, isValid) ==
    [prevented |-> ~isValid,
     alerts |-> Cardinality({i \in DOMAIN RequiredFields(f) :
                                Trim(value[RequiredFields(f)[i]]) = <<>>})]

\* `if (!isValid) { e.preventDefault(); alert(...) }`
SubmitOutcome(f, isValid) ==
    [prevented |-> ~isValid, alerts |-> IF isValid THEN 0 ELSE 1]

\* the submit listener of a form
Submit(f) ==
    /\ loaded
    /\ LET r == Validate(f)
           o == SubmitOutcome(f, r.isValid)
       IN  /\ borderColor' = r.color
           /\ ev' = [Event("submit", f) EXCEPT !.prevented = o.prevented, !.alerts = o.alerts]
           /\ blocked' = IF o.prevented THEN blocked \cup {f} ELSE blocked
    /\ UNCHANGED <<loadVars, clock, alertVars, timers, value, menuVars, smallText>>

\* the user types into a field
Input(x, v) ==
    /\ value' = [value EXCEPT ![x] = v]
    /\ ev' = NoEvent
    /\ UNCHANGED <<loadVars, clock, alertVars, timers, borderColor, blocked, menuVars, smallText>>

\* ---------------------------------------------------------------- file input
NoFileChosen == "No file chosen"
FileLists == {<<>>, <<"a.pdf">>}

\* variant: the listener writes the file name into the SMALL element
ChangeListenerShowsName(i, files) ==
    LET fileName == IF files # <<>> THEN files[1] ELSE NoFileChosen
        label == NextSiblingTag(i)
    IN  IF label # "" /\ label = "SMALL"
        THEN [smallText EXCEPT ![i] = fileName] ELSE smallText

\* the change listener: it computes fileName and label and writes nothing
ChangeListener(i, files) ==
    LET fileName == IF files # <<>> THEN files[1] ELSE NoFileChosen
        label == NextSiblingTag(i)
    IN  IF label # "" /\ label = "SMALL" THEN smallText ELSE smallText

\* a change event on a file input whose selection is `files`
Change(i, files) ==
    /\ loaded
    /\ smallText' = ChangeListener(i, files)
    /\ ev' = Event("change", i)
    /\ UNCHANGED <<loadVars, clock, alertVars, timers, formVars, menuVars>>

\* --------------------------------------------------------------- mobile menu
\* classList.toggle('mobile-open')
ToggleClass(c) == IF c = "open" THEN "closed" ELSE "open"

\* variant: classList.add in place of classList.toggle
MenuToggledAddOnly(sb) ==
    IF sb # <<>>
    THEN [sidebar |-> [sb EXCEPT ![1] = "open"], threw |-> FALSE]
    ELSE [sidebar |-> sb, threw |-> FALSE]

\* toggleMobileMenu(): document.querySelector('.sidebar') is the first sidebar or
\* null; what becomes of the sidebars, and whether the call threw
MenuToggled(sb) ==
    IF sb # <<>>
    THEN [sidebar |-> [sb EXCEPT ![1] = ToggleClass(sb[1])], threw |-> FALSE]
    ELSE [sidebar |-> sb, threw |-> FALSE]

toggleMobileMenu ==
    /\ LET r == MenuToggled(sidebar)
       IN  /\ sidebar' = r.sidebar
           /\ ev' = [Event("toggle", "") EXCEPT !.threw = r.threw]
    /\ oddCalls' = ~oddCalls
    /\ UNCHANGED <<loadVars, clock, alertVars, timers, formVars, smallText, sidebar0>>

\* ------------------------------------------------------------ specifications
UserEvent ==
    \/ \E b \in Buttons, answer \in BOOLEAN : Click(b, answer)
    \/ \E f \in Forms : Submit(f)
    \/ \E i \in FileInputs, files \in FileLists : Change(i, files)
    \/ toggleMobileMenu

\* the page with the values it was served with: time, timers and user events
Next ==
    \/ DOMContentLoaded
    \/ Tick
    \/ \E a \in Alerts : InsertAlert(a)
    \/ \E t \in TimerSet : TimerFires(t)
    \/ UserEvent

Spec == Init /\ [][Next]_vars

\* time passes, and the event loop runs every timer that is due
RunDueTimer == \E t \in TimerSet : TimerFires(t)
\* the page served with one closed sidebar
InitClosed == Init /\ sidebar = <<"closed">>
FairSpec == InitClosed /\ [][Next]_vars /\ WF_vars(Tick) /\ WF_vars(RunDueTimer)

\* the forms alone: the user types and submits, no time passes
NextForms ==
    \/ DOMContentLoaded
    \/ \E x \in Fields, v \in Values : Input(x, v)
    \/ \E f \in Forms : Submit(f)

SpecForms == Init /\ [][NextForms]_vars

\* ------------------------------------------------------------------ claims
\* a value that is empty once the whitespace around it is removed
Blank(v) == \A i \in 1..Len(v) : v[i] \in Whitespace
FieldSet(f) == {FieldsOf(f)[i] : i \in DOMAIN FieldsOf(f)}
RequiredOf(f) == {x \in FieldSet(f) : Required(x)}
Pending(kind, a) == \E t \in timers : t.kind = kind /\ t.alert = a
RemovalTime == HideDelay + RemoveDelay

\* C1, as stated: every alert element is out of the DOM within 5.5 s of its
\* insertion, whenever it was inserted.  The statement is read in its favour,
\* allowing the callbacks any lateness: an alert that is still in the DOM more
\* than 5.5 s after its insertion has at least a timer of its own pending.
C1_RemovedWithin5500msOfInsertion ==
    \A a \in Alerts :
        alertState[a] = "inDom" /\ age[a] > RemovalTime => \E t \in timers : t.alert = a

\* C1, amended: the script removes an alert only if it was in the DOM when the
\* DOMContentLoaded handler ran, and no sooner than 5.5 s after the handler ran;
\* an alert inserted after the handler has run gets no timer and is neither
\* faded nor removed.
C1_OnlyAlertsAtLoadRemovedAfter5500ms ==
    \A a \in Alerts :
        /\ alertState[a] = "removed" => a \in atLoad /\ clock >= RemovalTime
        /\ loaded /\ a \notin atLoad =>
              /\ alertState[a] # "removed"
              /\ opacity[a] = NoStyle
              /\ ~Pending("fade", a) /\ ~Pending("remove", a)

C1_Witness ==
    /\ alertState["served"] = "removed"
    /\ alertState["added"] = "inDom" /\ "added" \notin atLoad
    /\ age["added"] > RemovalTime

\* C2: a click on a delete-link button for which confirm() returned false has
\* its default action prevented.
C2_DeclinedClickIsPrevented ==
    ev.type = "click" /\ ev.confirms > 0 /\ ~ev.answer => ev.prevented

C2_Witness ==
    ev.type = "click" /\ ev.target = "del" /\ ev.confirms = 1 /\ ~ev.answer /\ ev.prevented

\* C3: a submit of a form with at least one required field that is blank is
\* blocked and shows the alert dialog exactly once, however many are blank.
C3_BlankRequiredFieldBlocksWithOneAlert ==
    ev.type = "submit" /\ (\E x \in RequiredOf(ev.target) : Blank(value[x]))
        => ev.prevented /\ ev.alerts = 1

C3_Witness ==
    /\ ev.type = "submit" /\ ev.target = "A"
    /\ Blank(value["a1"]) /\ Blank(value["a2"]) /\ value["a1"] # <<>>
    /\ ev.prevented /\ ev.alerts = 1

\* C4: toggleMobileMenu flips the mobile-open class of the sidebar and changes
\* nothing else, after n calls the class is present iff it was present at first
\* XOR n is odd, and without a sidebar the call changes nothing and throws nothing.
\* (The class is that of the first .sidebar element; a second one never changes.)
C4_Parity ==
    /\ Len(sidebar) = Len(sidebar0)
    /\ \A i \in DOMAIN sidebar :
          IF i = 1 THEN (sidebar[i] = "open") <=> ((sidebar0[i] = "open") # oddCalls)
          ELSE sidebar[i] = sidebar0[i]

C4_ToggleFlipsClassOnly ==
    /\ C4_Parity
    /\ [][/\ C4_Parity'
          /\ ev'.type = "toggle" =>
                /\ sidebar = <<>> => sidebar' = <<>>
                /\ sidebar # <<>> => sidebar'[1] # sidebar[1]
                /\ ~ev'.threw
                /\ UNCHANGED <<loadVars, clock, alertVars, timers, formVars, smallText>>]_vars

C4_Witness ==
    /\ ev.type = "toggle" /\ oddCalls
    /\ sidebar0 = <<"open", "closed">> /\ sidebar = <<"closed", "closed">>
    /\ timers # {}

\* C5: a change event on a file input, with or without a file and with or
\* without a SMALL element after it, leaves all page state as it was.
C5_ChangeIsNoOp ==
    [][ev'.type = "change" =>
          UNCHANGED <<loadVars, clock, alertVars, timers, formVars, menuVars, smallText>>]_vars

C5_Witness ==
    /\ ev.type = "change" /\ ev.target = "up1"
    /\ \E a \in Alerts : Pending("remove", a)
    /\ borderColor["a1"] = ErrorColor /\ sidebar = <<"open">>

\* C6: an alert present at DOMContentLoaded stays in the DOM with its style
\* untouched until 5 s after DOMContentLoaded, then its opacity is set to 0 with
\* the 0.5 s transition, and it is removed no sooner than 0.5 s after the fade
\* started; none is removed unfaded, and the removal timer exists only once the
\* fade timer has fired.
C6_Stage ==
    \A a \in atLoad :
        /\ clock < HideDelay =>
              alertState[a] = "inDom" /\ opacity[a] = NoStyle /\ transition[a] = NoStyle
        /\ Pending("fade", a) =>
              alertState[a] = "inDom" /\ opacity[a] = NoStyle /\ ~Pending("remove", a)
        /\ opacity[a] = Transparent => transition[a] = FadeTransition /\ ~Pending("fade", a)
        /\ Pending("remove", a) => opacity[a] = Transparent /\ alertState[a] = "inDom"
        /\ alertState[a] = "removed" => opacity[a] = Transparent

C6_VisibleThenFadingThenRemoved ==
    /\ C6_Stage
    /\ [][/\ C6_Stage'
          /\ \A a \in Alerts :
                alertState[a] = "inDom" /\ alertState'[a] = "removed" =>
                    opacity[a] = Transparent /\ sinceFade[a] >= RemoveDelay]_vars

C6_Witness ==
    /\ atLoad = Alerts
    /\ alertState["served"] = "removed"
    /\ alertState["added"] = "inDom" /\ opacity["added"] = Transparent
    /\ sinceFade["added"] > RemoveDelay

\* C7: once DOMContentLoaded has fired, every alert that was in the DOM then is
\* eventually removed, whatever user events come between the timer callbacks.
C7_AlertsAtLoadEventuallyRemoved ==
    \A a \in Alerts : (loaded /\ a \in atLoad) ~> (alertState[a] = "removed")

C7_Witness ==
    /\ atLoad = Alerts
    /\ \A a \in Alerts : alertState[a] = "removed"
    /\ borderColor["a1"] = ErrorColor /\ oddCalls
    /\ ev.type = "click" /\ ev.prevented

\* C8: a click on a .btn-danger element shows the confirm dialog, once, exactly
\* when the element had an href containing 'delete' at DOMContentLoaded, and then
\* navigation proceeds iff the user confirms; a click on any other .btn-danger
\* element shows no dialog and is not prevented.
C8_GateExactlyOnDeleteLinks ==
    ev.type = "click" =>
        IF ev.target = "del"
        THEN ev.confirms = 1 /\ (ev.prevented <=> ~ev.answer)
        ELSE ev.confirms = 0 /\ ~ev.prevented

C8_Witness ==
    ev.type = "click" /\ ev.target = "edit" /\ ev.confirms = 0 /\ ~ev.prevented

\* C9: a submit of a form whose required fields are all non-blank, a form with
\* no required field included, is not blocked and shows no dialog, also when
\* earlier submits of the form were blocked.
C9_FilledFormIsNotBlocked ==
    ev.type = "submit" /\ (\A x \in RequiredOf(ev.target) : ~Blank(value[x]))
        => ~ev.prevented /\ ev.alerts = 0

C9_Witness ==
    /\ ev.type = "submit" /\ ev.target = "A" /\ "A" \in blocked
    /\ ~ev.prevented /\ ev.alerts = 0
    /\ Blank(value["c1"])

\* C10: after a submit of a form each of its required fields has the border
\* colour #ef4444 if its value was blank at the submit and #e5e7eb otherwise,
\* every required field being examined, and all other fields keep their colour.
C10_BordersFollowBlankness ==
    [][ev'.type = "submit" =>
          \A x \in Fields :
              IF x \in RequiredOf(ev'.target)
              THEN borderColor'[x] = (IF Blank(value[x]) THEN ErrorColor ELSE NormalColor)
              ELSE borderColor'[x] = borderColor[x]]_vars

C10_Witness ==
    /\ ev.type = "submit" /\ ev.target = "A"
    /\ borderColor["a1"] = NormalColor /\ borderColor["a2"] = ErrorColor
    /\ borderColor["b1"] = ErrorColor /\ ~Blank(value["b1"])
    /\ "A" \in blocked
====
